---- MODULE Spec2Model ----
(***************************************************************************)
(* Implementation-log subsystem of spec-workflow-mcp:                      *)
(*   - logImplementationHandler (src/src/tools/log-implementation.ts)      *)
(*   - queryLogsHandler, getAllSpecNames, searchArtifacts                   *)
(*     (src/unnamed/part_001)                                              *)
(*   - the approval workflow a client follows                              *)
(*     (src/src/resources/approval-workflow.md)                            *)
(* The log store (ImplementationLogManager) and the task parser are not    *)
(* part of the sources at hand; they are modelled from spec.md 4.1/4.2.    *)
(*                                                                         *)
(* JavaScript values are modelled as follows.                              *)
(*   string      a sequence of one-character strings, <<"U","s">>          *)
(*   undefined   the sentinel Undefined (no string contains it)            *)
(*   a number    the sentinel NotAString where only "is it a string"       *)
(*               matters                                                   *)
(***************************************************************************)
EXTENDS Integers, Sequences, FiniteSets, TLC

\* ------------------------------------------------------------ bounds
\* log-implementation invocations in one behaviour, one at a time
MaxCalls == 2
\* log-implementation invocations in one behaviour, overlapping
MaxConcurrentCalls == 3

\* approval requests in one behaviour
MaxApprovals == 2
\* approvals calls (request, status, delete) in one behaviour
MaxOps == 6

\* ------------------------------------------------------------ JS values
Undefined == <<"#undefined">>
NotAString == <<"#number">>
Null == <<"#null">>

IsString(v) == v \notin {Undefined, NotAString, Null}

\* String.prototype.toLowerCase, on the alphabet of the model
ToLowerChar(c) ==
  CASE c = "U" -> "u"
    [] c = "S" -> "s"
    [] OTHER -> c

ToLowerCase(s) == [i \in 1..Len(s) |-> ToLowerChar(s[i])]

\* String.prototype.includes: needle occurs as a contiguous substring
Includes(hay, needle) ==
  \E i \in 0..(Len(hay) - Len(needle)) :
    \A j \in 1..Len(needle) : hay[i + j] = needle[j]

IsSpace(c) == c = " "

\* String.prototype.trim
RECURSIVE TrimLeft(_)
TrimLeft(s) ==
  IF s # <<>> /\ IsSpace(Head(s)) THEN TrimLeft(Tail(s)) ELSE s

RECURSIVE TrimRight(_)
TrimRight(s) ==
  IF s # <<>> /\ IsSpace(s[Len(s)]) THEN TrimRight(SubSeq(s, 1, Len(s) - 1)) ELSE s

Trim(s) == TrimRight(TrimLeft(s))

\* a || b for a numeric field that may be undefined (statistics.linesAdded || 0)
NoNumber == 0 - 1
OrZero(n) == IF n = NoNumber THEN 0 ELSE n

\* ------------------------------------------------------------ artifacts
\* A field of an artifact object, or an element of an array in it: its key
\* ("" for an array element) and its value, which is a string, a nested array,
\* or neither (number, boolean, object).
Str(k, s) == [k |-> k, t |-> "str", s |-> s, a |-> <<>>]
Arr(k, a) == [k |-> k, t |-> "arr", s |-> <<>>, a |-> a]
Other(k) == [k |-> k, t |-> "other", s |-> <<>>, a |-> <<>>]

\* An artifact object is the sequence of its fields, in Object.values order.
\* An artifacts bag holds five sequences; an absent sequence and an empty one
\* behave alike in every place of the code (truthiness test, then a loop), so
\* both are <<>>.  present = FALSE is a falsy `artifacts` (undefined, null).
ArtifactTypes == <<"apiEndpoints", "components", "functions", "classes", "integrations">>

Bag(api, comp, fn, cls, integ) ==
  [present |-> TRUE, apiEndpoints |-> api, components |-> comp,
   functions |-> fn, classes |-> cls, integrations |-> integ]

NoArtifacts ==
  [present |-> FALSE, apiEndpoints |-> <<>>, components |-> <<>>,
   functions |-> <<>>, classes |-> <<>>, integrations |-> <<>>]

EmptyBag == Bag(<<>>, <<>>, <<>>, <<>>, <<>>)

sUs == <<"U", "s">>
sX == <<"x">>
sXs == <<"x", " ", "s">>

\* { name: "Us" }
ArtName == <<Str("name", sUs)>>
\* { name: "x", isExported: true, methods: ["x", ["uS"]] }
ArtNested ==
  <<Str("name", sX), Other("isExported"),
    Arr("methods", <<Str("", sX), Arr("", <<Str("", <<"u", "S">>)>>)>>)>>
\* { location: "x s", line: 3 }
ArtPlain == <<Str("location", sXs), Other("line")>>

BagFn == Bag(<<>>, <<>>, <<ArtName>>, <<>>, <<>>)
BagCls == Bag(<<>>, <<>>, <<>>, <<ArtNested, ArtPlain>>, <<>>)
BagMixed == Bag(<<ArtPlain>>, <<>>, <<ArtName, ArtPlain>>, <<>>, <<ArtNested>>)

\* ------------------------------------------------------------ state
VARIABLES
  tasksDoc,     \* per active specification: its tasks.md, as the parser sees it
  logs,         \* per active specification: the stored log collection
  lock,         \* per specification directory: holder of the store's critical section
  nextId,       \* identifier source of the store
  calls,        \* log-implementation invocations started so far (also the clock)
  pc,           \* per invocation slot: where the handler is suspended
  args,         \* per invocation slot: the arguments of the call
  callNo,       \* per invocation slot: the number of the call it runs
  docSeen,      \* per invocation slot: the task document current to the call
  logEntry,     \* per invocation slot: the handler's local logEntry
  coll,         \* per invocation slot: the collection addLogEntry has loaded
  resp,         \* per invocation slot: the ToolResponse returned
  history,      \* per requested specification: the entries for which addLogEntry
                \* returned, with the call that made them, in order of return
  archLogs,     \* per archived specification: the stored log collection
  activeRoot,   \* state of <workflowRoot>/specs: "ok", "missing", "error"
  archRoot,     \* state of the archive specs root
  activeDir,    \* directory entries under the active root, in readdir order
  archDir,      \* directory entries under the archive root, in readdir order
  qpc,          \* where queryLogsHandler is suspended
  qargs,        \* the arguments of the query
  specsToSearch,\* the handler's local specsToSearch
  qi,           \* index of the loop over specsToSearch
  allMatches,   \* the handler's local allMatches
  logsSearchedCount, \* the handler's local logsSearchedCount
  qio,          \* file-system operations the query has performed, in order
  qloaded,      \* per loop iteration: what getAllLogs returned, and how far processing got
  qresp,        \* the ToolResponse returned by the query
  aphase,       \* approval workflow: where the client stands in the sequence
  approvalId,   \* the approvalId the client holds (0: none yet)
  approvals,    \* per approvalId: the state of the approval on the dashboard
  approvedSeen, \* a status poll of the approval held has returned 'approved'
  ops           \* the approvals calls made so far, with what they returned

storeVars == <<tasksDoc, logs, lock, nextId, calls, history>>
procVars == <<pc, args, callNo, docSeen, logEntry, coll, resp>>
fsVars == <<archLogs, activeRoot, archRoot, activeDir, archDir>>
queryVars == <<qpc, qargs, specsToSearch, qi, allMatches, logsSearchedCount, qio, qloaded, qresp>>
approvalVars == <<aphase, approvalId, approvals, approvedSeen, ops>>
vars == <<storeVars, procVars, fsVars, queryVars, approvalVars>>

SpecNames == {"s1", "s2"}
TaskIds == {"1", "2"}
Procs == {"p1", "p2"}

\* a Dirent: a name, and whether it is a directory
DirEntry(n) == [name |-> n, isDirectory |-> TRUE]
FileEntry(n) == [name |-> n, isDirectory |-> FALSE]

\* ------------------------------------------------------------ task documents
\* tasks.md as read by fs.readFile and parsed by parseTasksFromMarkdown: either
\* unreadable (readFile rejects) or the set of ids of the parsed tasks.
NoDoc == [readable |-> FALSE, ids |-> {}]
Doc(ids) == [readable |-> TRUE, ids |-> ids]
Docs == {NoDoc, Doc({"1"}), Doc({"1", "2"})}

\* ------------------------------------------------------------ append requests
NoStatistics == [present |-> FALSE, linesAdded |-> NoNumber, linesRemoved |-> NoNumber, filesChanged |-> NoNumber]
Stats(la, lr, fc) == [present |-> TRUE, linesAdded |-> la, linesRemoved |-> lr, filesChanged |-> fc]

BaseRequest ==
  [projectPath |-> TRUE, specName |-> "s1", taskId |-> "1", summary |-> sUs,
   filesModified |-> <<"a.ts">>, filesCreated |-> <<>>,
   statistics |-> Stats(10, 2, NoNumber), artifacts |-> BagFn]

AllRequests ==
  [projectPath : BOOLEAN, specName : SpecNames, taskId : TaskIds,
   summary : {sUs, sX, Undefined},
   filesModified : {<<"a.ts">>, Undefined, Null},
   filesCreated : {<<>>, <<"b.ts", "b.ts">>},
   statistics : {Stats(10, 2, NoNumber), Stats(NoNumber, NoNumber, 7), NoStatistics},
   artifacts : {BagFn, EmptyBag, NoArtifacts}]

RequestFields == {"projectPath", "specName", "taskId", "summary", "filesModified",
                  "filesCreated", "statistics", "artifacts"}

Deviations(r) == Cardinality({f \in RequestFields : r[f] # BaseRequest[f]})

\* the requests a behaviour draws from: the base request, the base request
\* changed in one field, and an unknown task together with a rejected
\* project path or artifacts value
Requests ==
  {r \in AllRequests : Deviations(r) <= 1}
    \cup {[BaseRequest EXCEPT !.taskId = "2", !.artifacts = NoArtifacts],
          [BaseRequest EXCEPT !.taskId = "2", !.projectPath = FALSE]}

\* the requests of concurrent invocations: distinguishable valid entries for
\* either specification
ConcurrentRequests ==
  {BaseRequest,
   [BaseRequest EXCEPT !.specName = "s2"],
   [BaseRequest EXCEPT !.filesCreated = <<"b.ts", "b.ts">>]}

\* ------------------------------------------------------------ responses
\* A ToolResponse: success, the kind of message, the identifiers the message
\* text interpolates, and the number of nextSteps (0: the field is absent).
Response(success, kind, names, nextSteps) ==
  [success |-> success, kind |-> kind, names |-> names, nextSteps |-> nextSteps]

NoResponse == Response(FALSE, "none", {}, 0)

\* ------------------------------------------------------------ logImplementationHandler
\* filesModified = [] : the destructuring default, taken for undefined only
Defaulted(v) == IF v = Undefined THEN <<>> ELSE v
\* filesModified || []
OrEmpty(v) == IF v = Null THEN <<>> ELSE v
\* filesModified?.length || 0
LengthOrZero(v) == IF v = Null THEN 0 ELSE Len(v)

\* if (!artifacts): only a falsy value fails the test; {} is an object, so truthy
ArtifactsRejected(artifacts) == ~artifacts.present

\* a lookup that only asks whether the document has tasks at all
TaskExistsAny(doc, taskId) == doc.ids # {}

\* parseResult.tasks.some(t => t.id === taskId)
TaskExists(doc, taskId) == taskId \in doc.ids

\* statistics that trust the caller's filesChanged when one is given
EntryStatisticsFromCaller(statistics, filesModified, filesCreated) ==
  [linesAdded |-> OrZero(statistics.linesAdded),
   linesRemoved |-> OrZero(statistics.linesRemoved),
   filesChanged |-> IF statistics.filesChanged # NoNumber THEN statistics.filesChanged
                    ELSE LengthOrZero(filesModified) + LengthOrZero(filesCreated)]

\* the statistics the handler puts into logEntry
EntryStatistics(statistics, filesModified, filesCreated) ==
  [linesAdded |-> OrZero(statistics.linesAdded),
   linesRemoved |-> OrZero(statistics.linesRemoved),
   filesChanged |-> LengthOrZero(filesModified) + LengthOrZero(filesCreated)]

\* const logEntry = { taskId, timestamp, summary, filesModified, ... }
LogEntryOf(a, now) ==
  [taskId |-> a.taskId, timestamp |-> now, summary |-> a.summary,
   filesModified |-> OrEmpty(Defaulted(a.filesModified)),
   filesCreated |-> OrEmpty(Defaulted(a.filesCreated)),
   statistics |-> EntryStatistics(a.statistics, Defaulted(a.filesModified), Defaulted(a.filesCreated)),
   artifacts |-> a.artifacts]

\* a store opened on one fixed directory, whatever specification is named
StoreOfProject(a) == "s1"

\* new ImplementationLogManager(specTasksPath): the collection the call appends to
StoreOf(a) == a.specName

NoEntry == [id |-> 0, taskId |-> "", timestamp |-> 0, summary |-> Undefined,
            filesModified |-> <<>>, filesCreated |-> <<>>,
            statistics |-> [linesAdded |-> 0, linesRemoved |-> 0, filesChanged |-> 0],
            artifacts |-> NoArtifacts]

Finish(p, r) ==
  /\ resp' = [resp EXCEPT ![p] = r]
  /\ pc' = [pc EXCEPT ![p] = "done"]

\* Invocations are handed to the first slot that is not running one.
FirstFree(p) == p = "p1" \/ pc["p1"] \notin {"idle", "done"}

\* Entry of the handler up to its first await: the project path and the
\* artifacts test (lines 139-176).
Call(p, a) ==
  /\ pc[p] \in {"idle", "done"}
  /\ FirstFree(p)
  /\ calls' = calls + 1
  /\ args' = [args EXCEPT ![p] = a]
  /\ callNo' = [callNo EXCEPT ![p] = calls + 1]
  /\ docSeen' = [docSeen EXCEPT ![p] = tasksDoc[a.specName]]
  /\ IF ~a.projectPath
       THEN Finish(p, Response(FALSE, "no_project_path", {}, 0))
     ELSE IF ArtifactsRejected(a.artifacts)
       THEN Finish(p, Response(FALSE, "artifacts_required", {}, 4))
     ELSE /\ pc' = [pc EXCEPT ![p] = "readTasks"]
          /\ resp' = [resp EXCEPT ![p] = NoResponse]
  /\ logEntry' = [logEntry EXCEPT ![p] = NoEntry]
  /\ coll' = [coll EXCEPT ![p] = <<>>]
  /\ UNCHANGED <<tasksDoc, logs, lock, nextId, history>>
  /\ UNCHANGED <<fsVars, queryVars, approvalVars>>

\* fs.readFile(tasksFile) settles; the task is looked up, logEntry is built and
\* addLogEntry is called (lines 178-224).  statistics.linesAdded on an absent
\* statistics throws a TypeError that the outer catch turns into a failure.
ReadTasks(p) ==
  /\ pc[p] = "readTasks"
  /\ docSeen' = [docSeen EXCEPT ![p] = tasksDoc[args[p].specName]]
  /\ LET a == args[p]
         doc == tasksDoc[a.specName]
     IN IF ~doc.readable
          THEN /\ Finish(p, Response(FALSE, "validate_failed", {a.specName}, 3))
               /\ logEntry' = logEntry
        ELSE IF ~TaskExists(doc, a.taskId)
          THEN /\ Finish(p, Response(FALSE, "task_not_found", {a.taskId, a.specName}, 3))
               /\ logEntry' = logEntry
        ELSE IF ~a.statistics.present
          THEN /\ Finish(p, Response(FALSE, "log_failed", {}, 3))
               /\ logEntry' = logEntry
        ELSE /\ logEntry' = [logEntry EXCEPT ![p] = LogEntryOf(a, calls)]
             /\ pc' = [pc EXCEPT ![p] = "load"]
             /\ resp' = resp
  /\ UNCHANGED <<storeVars, args, callNo, coll>>
  /\ UNCHANGED <<fsVars, queryVars, approvalVars>>

\* ------------------------------------------------------------ the log store
\* ImplementationLogManager, from spec.md 4.2: addLogEntry is a read-modify-write
\* of the whole collection inside one critical section per specification
\* directory; it assigns a fresh id and computes filesChanged.  A read or a
\* write of the backing file may fail, and the failure is raised to the caller.
StoredEntry(e, id) ==
  [id |-> id, taskId |-> e.taskId, timestamp |-> e.timestamp, summary |-> e.summary,
   filesModified |-> e.filesModified, filesCreated |-> e.filesCreated,
   statistics |-> [linesAdded |-> e.statistics.linesAdded,
                   linesRemoved |-> e.statistics.linesRemoved,
                   filesChanged |-> Len(e.filesModified) + Len(e.filesCreated)],
   artifacts |-> e.artifacts]

\* getAllLogs of an active specification
GetAllLogs(s) == logs[s]

\* a store without a critical section
CanEnterUnlocked(s) == TRUE

CanEnter(s) == lock[s] = "free"

\* addLogEntry enters the critical section of its specification directory and
\* reads the collection; a failed read leaves the critical section and is
\* raised, and the handler's outer catch reports it (lines 250-260)
Load(p) ==
  /\ pc[p] = "load"
  /\ CanEnter(StoreOf(args[p]))
  /\ \E ok \in BOOLEAN :
       IF ok
         THEN /\ coll' = [coll EXCEPT ![p] = logs[StoreOf(args[p])]]
              /\ lock' = [lock EXCEPT ![StoreOf(args[p])] = p]
              /\ pc' = [pc EXCEPT ![p] = "write"]
              /\ resp' = resp
         ELSE /\ Finish(p, Response(FALSE, "log_failed", {}, 3))
              /\ UNCHANGED <<coll, lock>>
  /\ UNCHANGED <<tasksDoc, logs, nextId, calls, history>>
  /\ UNCHANGED <<args, callNo, docSeen, logEntry>>
  /\ UNCHANGED <<fsVars, queryVars, approvalVars>>

\* addLogEntry writes the enlarged collection as a whole and returns the entry
Write(p) ==
  /\ pc[p] = "write"
  /\ lock' = [lock EXCEPT ![StoreOf(args[p])] = "free"]
  /\ \E ok \in BOOLEAN :
       IF ok
         THEN LET s == StoreOf(args[p])
                  e == StoredEntry(logEntry[p], nextId)
              IN /\ logs' = [logs EXCEPT ![s] = Append(coll[p], e)]
                 /\ nextId' = nextId + 1
                 /\ history' = [history EXCEPT ![args[p].specName] = Append(@, [call |-> callNo[p], entry |-> e])]
                 /\ pc' = [pc EXCEPT ![p] = "stats"]
                 /\ resp' = resp
         ELSE /\ Finish(p, Response(FALSE, "log_failed", {}, 3))
              /\ UNCHANGED <<logs, nextId, history>>
  /\ UNCHANGED <<tasksDoc, calls>>
  /\ UNCHANGED <<args, callNo, docSeen, logEntry, coll>>
  /\ UNCHANGED <<fsVars, queryVars, approvalVars>>

\* getTaskStats settles and the handler returns (lines 226-260)
TaskStats(p) ==
  /\ pc[p] = "stats"
  /\ \E ok \in BOOLEAN :
       IF ok
         THEN Finish(p, Response(TRUE, "logged", {args[p].taskId}, 3))
         ELSE Finish(p, Response(FALSE, "log_failed", {}, 3))
  /\ UNCHANGED <<storeVars, args, callNo, docSeen, logEntry, coll>>
  /\ UNCHANGED <<fsVars, queryVars, approvalVars>>

\* tasks.md is edited outside the subsystem (the log subsystem never writes it)
EditTasks(s, d) ==
  /\ d # tasksDoc[s]
  /\ tasksDoc' = [tasksDoc EXCEPT ![s] = d]
  /\ UNCHANGED <<logs, lock, nextId, calls, history>>
  /\ UNCHANGED <<procVars, fsVars, queryVars, approvalVars>>

\* ------------------------------------------------------------ searchArtifacts
\* matchesSearch with an argument that is compared as it is written
RECURSIVE MatchesSearchCaseSensitive(_, _)
MatchesSearchCaseSensitive(value, lowerSearchTerm) ==
  IF value.t = "str" THEN Includes(value.s, lowerSearchTerm)
  ELSE IF value.t = "arr"
    THEN \E i \in DOMAIN value.a : MatchesSearchCaseSensitive(value.a[i], lowerSearchTerm)
  ELSE FALSE

\* matchesSearch: a string includes the term, an array has a matching element
RECURSIVE MatchesSearch(_, _)
MatchesSearch(value, lowerSearchTerm) ==
  IF value.t = "str" THEN Includes(ToLowerCase(value.s), lowerSearchTerm)
  ELSE IF value.t = "arr"
    THEN \E i \in DOMAIN value.a : MatchesSearch(value.a[i], lowerSearchTerm)
  ELSE FALSE

\* artifactMatches: Object.values(artifact).some(matchesSearch)
ArtifactMatches(artifact, lowerSearchTerm) ==
  \E i \in DOMAIN artifact : MatchesSearch(artifact[i], lowerSearchTerm)

\* the type filter lets a sequence through; "" is an omitted artifactType
Selected(artifactTypeFilter, type) ==
  artifactTypeFilter = "" \/ artifactTypeFilter = "all" \/ artifactTypeFilter = type

\* the tag pushed with a match of each sequence
TypeTag(type) ==
  CASE type = "apiEndpoints" -> "apiEndpoint"
    [] type = "components" -> "component"
    [] type = "functions" -> "function"
    [] type = "classes" -> "class"
    [] type = "integrations" -> "integration"

\* one of the five blocks of searchArtifacts
MatchesOfType(entry, lowerSearchTerm, artifactTypeFilter, type) ==
  IF Selected(artifactTypeFilter, type)
    THEN LET hit == SelectSeq(entry.artifacts[type],
                              LAMBDA artifact : ArtifactMatches(artifact, lowerSearchTerm))
         IN [i \in 1..Len(hit) |-> [type |-> TypeTag(type), data |-> hit[i]]]
    ELSE <<>>

SearchArtifacts(entry, searchTerm, artifactTypeFilter) ==
  LET lowerSearchTerm == ToLowerCase(searchTerm)
  IN IF ~entry.artifacts.present THEN <<>>
     ELSE MatchesOfType(entry, lowerSearchTerm, artifactTypeFilter, "apiEndpoints")
            \o MatchesOfType(entry, lowerSearchTerm, artifactTypeFilter, "components")
            \o MatchesOfType(entry, lowerSearchTerm, artifactTypeFilter, "functions")
            \o MatchesOfType(entry, lowerSearchTerm, artifactTypeFilter, "classes")
            \o MatchesOfType(entry, lowerSearchTerm, artifactTypeFilter, "integrations")

\* ------------------------------------------------------------ queryLogsHandler
MaxMatches == 100

\* a slice that keeps one element too many
SliceInclusive(seq, end) ==
  SubSeq(seq, 1, IF Len(seq) < end + 1 THEN Len(seq) ELSE end + 1)

\* Array.prototype.slice(0, end)
Slice(seq, end) ==
  SubSeq(seq, 1, IF Len(seq) < end THEN Len(seq) ELSE end)

\* a message that reports a limit whenever the result is as long as the cap
MessageKindAtCap(limited, all) ==
  IF limited = 0 THEN "no_matches"
  ELSE IF limited >= MaxMatches THEN "limited"
  ELSE "found"

\* which of the three messages is returned (lines 314-318), from the lengths
\* of limitedMatches and allMatches
MessageKind(limited, all) ==
  IF limited = 0 THEN "no_matches"
  ELSE IF limited < all THEN "limited"
  ELSE "found"

\* a search term the handler takes for "no search term" only when it is falsy or
\* not a string
SearchTermRejectedUntrimmed(searchTerm) ==
  \/ searchTerm = Undefined \/ searchTerm = <<>>
  \/ ~IsString(searchTerm)

\* !searchTerm || typeof searchTerm !== 'string' || searchTerm.trim().length === 0
SearchTermRejected(searchTerm) ==
  \/ searchTerm = Undefined \/ searchTerm = <<>>
  \/ ~IsString(searchTerm)
  \/ Len(Trim(searchTerm)) = 0

\* fs.access(path) of a specification directory resolves
Access(root, dir, name) ==
  root = "ok" /\ \E i \in DOMAIN dir : dir[i].name = name

\* the collection getAllLogs reads for a specification: the stored one, or the
\* empty one where there is no backing file (spec.md 4.2)
StoredLogs(spec) ==
  IF spec.isArchived
    THEN IF \E i \in DOMAIN archDir : archDir[i] = DirEntry(spec.name)
           THEN archLogs[spec.name] ELSE <<>>
    ELSE IF \E i \in DOMAIN activeDir : activeDir[i] = DirEntry(spec.name)
           THEN logs[spec.name] ELSE <<>>

\* one row of allMatches
Match(spec, log, artifact) ==
  [specName |-> spec.name, taskId |-> log.taskId, timestamp |-> log.timestamp,
   isArchived |-> spec.isArchived, artifact |-> artifact,
   context |-> [summary |-> log.summary, filesModified |-> log.filesModified,
                filesCreated |-> log.filesCreated]]

\* log.summary.toLowerCase() throws a TypeError when summary is not a string
ProcessingThrows(log) == ~IsString(log.summary)

\* the rows the body of the loop over logs pushes for one entry (lines 254-296)
RowsOfEntry(spec, log, searchTerm, artifactType) ==
  LET summaryMatch == Includes(ToLowerCase(log.summary), ToLowerCase(searchTerm))
      artifactMatches == SearchArtifacts(log, searchTerm, artifactType)
  IN IF artifactMatches # <<>>
       THEN [i \in 1..Len(artifactMatches) |-> Match(spec, log, artifactMatches[i])]
     ELSE IF summaryMatch
       THEN <<Match(spec, log, [type |-> "function",
                                data |-> <<Str("summary", log.summary)>>])>>
     ELSE <<>>

\* the number of entries the loop over logs gets through: all of them, or those
\* before the first entry that throws
Processed(entries) ==
  LET throwing == {k \in DOMAIN entries : ProcessingThrows(entries[k])}
  IN IF throwing = {} THEN Len(entries)
     ELSE (CHOOSE k \in throwing : \A l \in throwing : k <= l) - 1

\* the loop over the logs of one specification: per entry reached without an
\* exception, the rows it pushed; the loop ends at the first entry that throws
RowsPerEntry(spec, entries, searchTerm, artifactType) ==
  [k \in 1..Processed(entries) |-> RowsOfEntry(spec, entries[k], searchTerm, artifactType)]

\* the concatenation of a sequence of sequences, in order
RECURSIVE Flatten(_)
Flatten(seqs) ==
  IF seqs = <<>> THEN <<>>
  ELSE IF Len(seqs) = 1 THEN seqs[1]
  ELSE LET half == Len(seqs) \div 2
       IN Flatten(SubSeq(seqs, 1, half)) \o Flatten(SubSeq(seqs, half + 1, Len(seqs)))

\* entry.isDirectory() entries of a listing, as specifications of a namespace
SpecsIn(dir, isArchived) ==
  LET d == SelectSeq(dir, LAMBDA entry : entry.isDirectory)
  IN [i \in 1..Len(d) |-> [name |-> d[i].name, isArchived |-> isArchived]]

\* a scan of one root that treats every readdir error alike
ScanRootStrict(root, dir, isArchived) ==
  CASE root = "ok" -> [threw |-> FALSE, specs |-> SpecsIn(dir, isArchived)]
    [] OTHER -> [threw |-> TRUE, specs |-> <<>>]

\* one try/catch of getAllSpecNames: ENOENT is swallowed, another error rethrown
ScanRoot(root, dir, isArchived) ==
  CASE root = "ok" -> [threw |-> FALSE, specs |-> SpecsIn(dir, isArchived)]
    [] root = "missing" -> [threw |-> FALSE, specs |-> <<>>]
    [] OTHER -> [threw |-> TRUE, specs |-> <<>>]

\* an enumeration that lists the archived specifications first
GetAllSpecNamesArchivedFirst ==
  LET active == ScanRoot(activeRoot, activeDir, FALSE)
      archived == ScanRoot(archRoot, archDir, TRUE)
  IN IF active.threw
       THEN [threw |-> TRUE, specs |-> <<>>, io |-> <<"readdir:active">>]
     ELSE [threw |-> archived.threw,
           specs |-> IF archived.threw THEN <<>> ELSE archived.specs \o active.specs,
           io |-> <<"readdir:active", "readdir:archive">>]

\* getAllSpecNames(projectPath, true): the specifications, the readdir calls
\* made, and whether it threw
GetAllSpecNames ==
  LET active == ScanRoot(activeRoot, activeDir, FALSE)
      archived == ScanRoot(archRoot, archDir, TRUE)
  IN IF active.threw
       THEN [threw |-> TRUE, specs |-> <<>>, io |-> <<"readdir:active">>]
     ELSE [threw |-> archived.threw,
           specs |-> IF archived.threw THEN <<>> ELSE active.specs \o archived.specs,
           io |-> <<"readdir:active", "readdir:archive">>]

\* a resolution that looks in the archive before the active namespace
ResolveSpecArchiveFirst(specName) ==
  IF Access(archRoot, archDir, specName)
    THEN [found |-> TRUE, isArchived |-> TRUE, io |-> <<"access:archive">>]
  ELSE IF Access(activeRoot, activeDir, specName)
    THEN [found |-> TRUE, isArchived |-> FALSE, io |-> <<"access:archive", "access:active">>]
  ELSE [found |-> FALSE, isArchived |-> FALSE, io |-> <<"access:archive", "access:active">>]

\* lines 207-233: fs.access of the active path, then of the archived path
ResolveSpec(specName) ==
  IF Access(activeRoot, activeDir, specName)
    THEN [found |-> TRUE, isArchived |-> FALSE, io |-> <<"access:active">>]
  ELSE IF Access(archRoot, archDir, specName)
    THEN [found |-> TRUE, isArchived |-> TRUE, io |-> <<"access:active", "access:archive">>]
  ELSE [found |-> FALSE, isArchived |-> FALSE, io |-> <<"access:active", "access:archive">>]

\* a response whose logsSearched is the number of rows returned
QueryResponseCountingMatches(success, kind, names, nextSteps, matches, specsSearched, logsSearched, total) ==
  [success |-> success, kind |-> kind, names |-> names, nextSteps |-> nextSteps,
   matches |-> matches, specsSearched |-> specsSearched,
   logsSearched |-> Len(matches), total |-> total]

\* the ToolResponse of a query: the failure fields, and on success the data
\* (matches, specsSearched, logsSearched) and what the message reports
QueryResponse(success, kind, names, nextSteps, matches, specsSearched, logsSearched, total) ==
  [success |-> success, kind |-> kind, names |-> names, nextSteps |-> nextSteps,
   matches |-> matches, specsSearched |-> specsSearched,
   logsSearched |-> logsSearched, total |-> total]

QueryFailure(kind, names, nextSteps) ==
  QueryResponse(FALSE, kind, names, nextSteps, <<>>, 0, 0, 0)

NoQueryResponse == QueryFailure("none", {}, 0)

\* ------------------------------------------------------------ initial states
ProcsIdle ==
  /\ pc = [p \in Procs |-> "idle"]
  /\ args = [p \in Procs |-> BaseRequest]
  /\ callNo = [p \in Procs |-> 0]
  /\ docSeen = [p \in Procs |-> NoDoc]
  /\ logEntry = [p \in Procs |-> NoEntry]
  /\ coll = [p \in Procs |-> <<>>]
  /\ resp = [p \in Procs |-> NoResponse]

NoQueryArgs == [searchTerm |-> Undefined, specName |-> "", artifactType |-> ""]

QueryIdle ==
  /\ qpc = "idle"
  /\ qargs = NoQueryArgs
  /\ specsToSearch = <<>>
  /\ qi = 0
  /\ allMatches = <<>>
  /\ logsSearchedCount = 0
  /\ qio = <<>>
  /\ qloaded = <<>>
  /\ qresp = NoQueryResponse

\* no approval requested yet
ApprovalIds == 1..MaxApprovals

ApprovalIdle ==
  /\ aphase = "start"
  /\ approvalId = 0
  /\ approvals = [id \in ApprovalIds |-> "none"]
  /\ approvedSeen = FALSE
  /\ ops = <<>>

\* A project with two active specifications, each with a task document that
\* holds task 1, and no implementation logged yet.
InitAppend ==
  /\ tasksDoc = [s \in SpecNames |-> Doc({"1"})]
  /\ logs = [s \in SpecNames |-> <<>>]
  /\ lock = [s \in SpecNames |-> "free"]
  /\ nextId = 1
  /\ calls = 0
  /\ history = [s \in SpecNames |-> <<>>]
  /\ ProcsIdle
  /\ archLogs = [s \in SpecNames |-> <<>>]
  /\ activeRoot = "ok"
  /\ archRoot = "missing"
  /\ activeDir = <<DirEntry("s1"), DirEntry("s2")>>
  /\ archDir = <<>>
  /\ QueryIdle
  /\ ApprovalIdle

\* One invocation at a time, any request, task documents edited in between.
NextAppend ==
  \/ \E a \in Requests : calls < MaxCalls /\ Call("p1", a)
  \/ ReadTasks("p1")
  \/ Load("p1")
  \/ Write("p1")
  \/ TaskStats("p1")
  \/ \E s \in SpecNames, d \in Docs : EditTasks(s, d)

SpecAppend == InitAppend /\ [][NextAppend]_vars

\* Invocations overlap: each is suspended at its awaits and the others run.
NextConcurrent ==
  \/ \E p \in Procs, a \in ConcurrentRequests : calls < MaxConcurrentCalls /\ Call(p, a)
  \/ \E p \in Procs : ReadTasks(p)
  \/ \E p \in Procs : Load(p)
  \/ \E p \in Procs : Write(p)
  \/ \E p \in Procs : TaskStats(p)

SpecConcurrent == InitAppend /\ [][NextConcurrent]_vars

\* ------------------------------------------------------------ query actions
\* Entry of queryLogsHandler: the search-term test, then the selection of the
\* specifications to search (lines 191-240).
QueryCall(a) ==
  /\ qpc = "idle"
  /\ qargs' = a
  /\ IF SearchTermRejected(a.searchTerm)
       THEN /\ qresp' = QueryFailure("search_term_required", {}, 1)
            /\ qpc' = "done"
            /\ UNCHANGED <<specsToSearch, qi, qio>>
     ELSE IF a.specName # ""
       THEN LET r == ResolveSpec(a.specName)
            IN /\ qio' = r.io
               /\ IF r.found
                    THEN /\ specsToSearch' = <<[name |-> a.specName, isArchived |-> r.isArchived]>>
                         /\ qi' = 1
                         /\ qpc' = "loop"
                         /\ qresp' = qresp
                    ELSE /\ qresp' = QueryFailure("spec_not_found", {a.specName}, 2)
                         /\ qpc' = "done"
                         /\ UNCHANGED <<specsToSearch, qi>>
     ELSE LET g == GetAllSpecNames
          IN /\ qio' = g.io
             /\ IF g.threw
                  THEN /\ qresp' = QueryFailure("query_failed", {}, 3)
                       /\ qpc' = "done"
                       /\ UNCHANGED <<specsToSearch, qi>>
                  ELSE /\ specsToSearch' = g.specs
                       /\ qi' = 1
                       /\ qpc' = "loop"
                       /\ qresp' = qresp
  /\ UNCHANGED <<allMatches, logsSearchedCount, qloaded>>
  /\ UNCHANGED <<storeVars, procVars, fsVars, approvalVars>>

\* One iteration of the loop over specsToSearch (lines 242-302): getAllLogs
\* settles; a rejection, or an exception while the logs are processed, is
\* caught and the loop continues with the next specification.
QueryLoad ==
  /\ qpc = "loop"
  /\ qi <= Len(specsToSearch)
  /\ qi' = qi + 1
  /\ qio' = Append(qio, "getAllLogs")
  /\ LET spec == specsToSearch[qi]
     IN \E ok \in BOOLEAN :
          IF ok
            THEN LET entries == StoredLogs(spec)
                     rows == RowsPerEntry(spec, entries, qargs.searchTerm, qargs.artifactType)
                 IN /\ logsSearchedCount' = logsSearchedCount + Len(entries)
                    /\ allMatches' = allMatches \o Flatten(rows)
                    /\ qloaded' = Append(qloaded, [spec |-> spec, loaded |-> TRUE,
                                                   entries |-> entries, rows |-> rows])
            ELSE /\ qloaded' = Append(qloaded, [spec |-> spec, loaded |-> FALSE,
                                                entries |-> <<>>, rows |-> <<>>])
                 /\ UNCHANGED <<logsSearchedCount, allMatches>>
  /\ UNCHANGED <<qpc, qargs, specsToSearch, qresp>>
  /\ UNCHANGED <<storeVars, procVars, fsVars, approvalVars>>

\* After the loop: the slice to 100 matches and the response (lines 304-324).
QueryFinish ==
  /\ qpc = "loop"
  /\ qi > Len(specsToSearch)
  /\ LET limitedMatches == Slice(allMatches, MaxMatches)
         kind == MessageKind(Len(limitedMatches), Len(allMatches))
     IN qresp' = QueryResponse(TRUE, kind, {}, 0, limitedMatches, Len(specsToSearch),
                               logsSearchedCount,
                               IF kind = "limited" THEN Len(allMatches) ELSE Len(limitedMatches))
  /\ qpc' = "done"
  /\ UNCHANGED <<qargs, specsToSearch, qi, allMatches, logsSearchedCount, qio, qloaded>>
  /\ UNCHANGED <<storeVars, procVars, fsVars, approvalVars>>

\* ------------------------------------------------------------ stored projects
\* Entries as the append handler builds and the store persists them.
Entry(id, summary, artifacts) ==
  StoredEntry(LogEntryOf([BaseRequest EXCEPT !.summary = summary, !.artifacts = artifacts], id), id)

EntryFn == Entry(1, sUs, BagFn)
EntryCls == Entry(2, sX, BagCls)
EntryNoSummary == Entry(3, Undefined, BagFn)
EntryBare == Entry(4, sUs, EmptyBag)
EntryMixed == Entry(5, sXs, BagMixed)

ActiveListings ==
  {<<>>, <<DirEntry("s1")>>, <<DirEntry("s1"), DirEntry("s2")>>,
   <<FileEntry("s1"), DirEntry("s2")>>}

ArchiveListings == {<<>>, <<DirEntry("s1")>>, <<DirEntry("s2")>>}

RootStates == {"ok", "missing", "error"}

\* A project as appends and archival have left it: either root may exist, be
\* missing, or be unreadable; each existing specification has its collection.
InitQuery ==
  /\ tasksDoc = [s \in SpecNames |-> Doc({"1"})]
  /\ logs \in {[s1 |-> <<EntryFn, EntryNoSummary, EntryCls>>, s2 |-> <<EntryBare, EntryMixed>>],
               [s1 |-> <<EntryFn, EntryCls>>, s2 |-> <<>>]}
  /\ archLogs = [s1 |-> <<EntryMixed>>, s2 |-> <<EntryCls, EntryBare>>]
  /\ lock = [s \in SpecNames |-> "free"]
  /\ nextId = 6
  /\ calls = 0
  /\ history = [s \in SpecNames |-> <<>>]
  /\ ProcsIdle
  /\ activeRoot \in RootStates
  /\ archRoot \in RootStates
  /\ activeDir \in (IF activeRoot = "ok" THEN ActiveListings ELSE {<<>>})
  /\ archDir \in (IF archRoot = "ok" THEN ArchiveListings ELSE {<<>>})
  /\ QueryIdle
  /\ ApprovalIdle

SearchTerms ==
  {Undefined, NotAString, <<>>, <<" ">>, <<" ", " ">>,
   <<"u", "s">>, <<"U">>, <<"x">>, <<" ", "s">>, <<"z">>}

QueryArgs ==
  [searchTerm : SearchTerms,
   specName : {"", "s1", "s2", "s3"},
   artifactType : {"", "all", "apiEndpoints", "components", "functions", "classes", "integrations"}]

NextQuery ==
  \/ \E a \in QueryArgs : QueryCall(a)
  \/ QueryLoad
  \/ QueryFinish

SpecQuery == InitQuery /\ [][NextQuery]_vars

\* ------------------------------------------------------------ large collections
\* the largest collection of a project with many logged tasks
MaxEntries == 150

\* entry i of a long collection: summaries alternate, every third entry
\* documents classes and the others a function
BulkEntry(i) ==
  Entry(i, IF i % 2 = 1 THEN sUs ELSE sX, IF i % 3 = 1 THEN BagCls ELSE BagFn)

Bulk(n) == [i \in 1..n |-> BulkEntry(i)]

\* collection sizes around the cap on matches
BulkSizes == {0, MaxMatches - 1, MaxMatches, MaxMatches + 1, MaxEntries}

\* A project whose specifications have long collections.
InitBulk ==
  /\ tasksDoc = [s \in SpecNames |-> Doc({"1"})]
  /\ logs \in {[s1 |-> Bulk(n), s2 |-> Bulk(m)] : n \in BulkSizes, m \in {0, 1, MaxMatches}}
  /\ archLogs = [s1 |-> Bulk(1), s2 |-> <<>>]
  /\ lock = [s \in SpecNames |-> "free"]
  /\ nextId = MaxEntries + 1
  /\ calls = 0
  /\ history = [s \in SpecNames |-> <<>>]
  /\ ProcsIdle
  /\ activeRoot = "ok"
  /\ archRoot \in {"ok", "missing"}
  /\ activeDir \in {<<DirEntry("s1")>>, <<DirEntry("s1"), DirEntry("s2")>>}
  /\ archDir \in (IF archRoot = "ok" THEN {<<DirEntry("s1")>>} ELSE {<<>>})
  /\ QueryIdle
  /\ ApprovalIdle

BulkArgs ==
  [searchTerm : {<<"u", "s">>, <<"x">>, <<"z">>, <<" ">>},
   specName : {"", "s1", "s3"},
   artifactType : {"", "classes"}]

NextBulk ==
  \/ \E a \in BulkArgs : QueryCall(a)
  \/ QueryLoad
  \/ QueryFinish

SpecBulk == InitBulk /\ [][NextBulk]_vars

\* ------------------------------------------------------------ approval workflow
\* The client side of resources/approval-workflow.md: request, poll status,
\* delete.  The dashboard holds the approvals; the user reviews a pending one
\* there.  An approval can be gone from the dashboard before the client
\* deletes it ("race condition or state inconsistency", Error Handling).
Op(op, id, result) == [op |-> op, id |-> id, result |-> result]

\* a request that takes up the approval the client already holds
ReusedApprovalId(current, fresh) == IF current # 0 THEN current ELSE fresh

\* action 'request' creates an approval and returns its approvalId
NewApprovalId(current, fresh) == fresh

FreshApprovalId == Cardinality({id \in ApprovalIds : approvals[id] # "none"}) + 1

\* Step 1: request approval of the document (also after a revision)
RequestApproval ==
  /\ aphase = "start"
  /\ Len(ops) < MaxOps
  /\ FreshApprovalId <= MaxApprovals
  /\ LET id == NewApprovalId(approvalId, FreshApprovalId)
     IN /\ approvals' = [approvals EXCEPT ![id] = "pending"]
        /\ approvalId' = id
        /\ ops' = Append(ops, Op("request", id, "ok"))
  /\ approvedSeen' = FALSE
  /\ aphase' = "poll"
  /\ UNCHANGED <<storeVars, procVars, fsVars, queryVars>>

\* the user approves the document on the dashboard, or asks for changes
Review(id, verdict) ==
  /\ approvals[id] = "pending"
  /\ approvals' = [approvals EXCEPT ![id] = verdict]
  /\ UNCHANGED <<aphase, approvalId, approvedSeen, ops>>
  /\ UNCHANGED <<storeVars, procVars, fsVars, queryVars>>

\* an approved approval is cleaned up on the dashboard's side
Remove(id) ==
  /\ approvals[id] = "approved"
  /\ approvals' = [approvals EXCEPT ![id] = "gone"]
  /\ UNCHANGED <<aphase, approvalId, approvedSeen, ops>>
  /\ UNCHANGED <<storeVars, procVars, fsVars, queryVars>>

\* what the client does on "Approval not found" during a poll: "check if
\* already deleted, proceed if appropriate".  Proceeding is taken to be
\* appropriate only when the approval had been reported approved.
ProceedIfAppropriate(seen) == IF seen THEN "next" ELSE "poll"

\* Step 2: poll the status of the approval held, and act by state
PollStatus ==
  /\ aphase = "poll"
  /\ Len(ops) < MaxOps
  /\ LET status == approvals[approvalId]
     IN /\ ops' = Append(ops, Op("status", approvalId,
                                 IF status = "gone" THEN "not-found" ELSE status))
        /\ aphase' = CASE status = "pending" -> "poll"
                        [] status = "approved" -> "cleanup"
                        [] status = "needs-revision" -> "update"
                        [] status = "gone" -> ProceedIfAppropriate(approvedSeen)
        /\ approvedSeen' = (approvedSeen \/ status = "approved")
  /\ UNCHANGED <<approvalId, approvals>>
  /\ UNCHANGED <<storeVars, procVars, fsVars, queryVars>>

\* needs-revision: update the document using the user's comments, then return
\* to Step 1
UpdateDocument ==
  /\ aphase = "update"
  /\ aphase' = "start"
  /\ UNCHANGED <<approvalId, approvals, approvedSeen, ops>>
  /\ UNCHANGED <<storeVars, procVars, fsVars, queryVars>>

\* where the client goes after a delete, by its outcome
AfterDelete(ok) == IF ok THEN "next" ELSE "poll"

\* Step 3: delete the approval after 'approved'.  The delete fails when the
\* approval is not found, and may fail otherwise; a failed delete returns the
\* client to Step 2.
DeleteApproval ==
  /\ aphase = "cleanup"
  /\ Len(ops) < MaxOps
  /\ \E ok \in (IF approvals[approvalId] = "gone" THEN {FALSE} ELSE BOOLEAN) :
       /\ approvals' = IF ok THEN [approvals EXCEPT ![approvalId] = "gone"] ELSE approvals
       /\ ops' = Append(ops, Op("delete", approvalId, IF ok THEN "ok" ELSE "failed"))
       /\ aphase' = AfterDelete(ok)
  /\ UNCHANGED <<approvalId, approvedSeen>>
  /\ UNCHANGED <<storeVars, procVars, fsVars, queryVars>>

\* the next phase: its document is created and goes through the same sequence
NextPhase ==
  /\ aphase = "next"
  /\ aphase' = "start"
  /\ UNCHANGED <<approvalId, approvals, approvedSeen, ops>>
  /\ UNCHANGED <<storeVars, procVars, fsVars, queryVars>>

NextApproval ==
  \/ RequestApproval
  \/ \E id \in ApprovalIds, verdict \in {"approved", "needs-revision"} : Review(id, verdict)
  \/ \E id \in ApprovalIds : Remove(id)
  \/ PollStatus
  \/ UpdateDocument
  \/ DeleteApproval
  \/ NextPhase

SpecApproval == InitAppend /\ [][NextApproval]_vars

\* ------------------------------------------------------------ claims: append
\* the call running in slot p has added no entry to any collection
NotAppended(p) ==
  \A s \in SpecNames : \A i \in DOMAIN history[s] : history[s][i].call # callNo[p]

\* the call in slot p has returned, and its taskId is not a task of the task
\* document that was current to it
UnknownTask(p) ==
  /\ pc[p] = "done"
  /\ docSeen[p].readable
  /\ args[p].taskId \notin docSeen[p].ids

NamesTask(p) == ~resp[p].success /\ args[p].taskId \in resp[p].names

\* C1, as claimed: every append request whose taskId is not a task of the
\* current task document gets a failure that names the task id, and the log
\* collection is unchanged.
C1_UnknownTaskAlwaysNamed ==
  \A p \in Procs : UnknownTask(p) => NamesTask(p) /\ NotAppended(p)

\* C1, amended: every such request fails and leaves the log collection
\* unchanged; the failure names the task id when the request carries a project
\* path and a truthy artifacts value (otherwise that earlier validation's
\* failure is returned, and it does not name the task).
C1_UnknownTaskRejected ==
  \A p \in Procs :
    UnknownTask(p) =>
      /\ ~resp[p].success
      /\ NotAppended(p)
      /\ (args[p].projectPath /\ args[p].artifacts.present) =>
           (resp[p].kind = "task_not_found" /\ NamesTask(p))

\* an unknown task was refused while the collection already held an entry
C1_Witness ==
  \E p \in Procs :
    /\ UnknownTask(p)
    /\ resp[p].kind = "task_not_found"
    /\ logs[args[p].specName] # <<>>

HasArtifact(artifacts) ==
  \E i \in DOMAIN ArtifactTypes : artifacts[ArtifactTypes[i]] # <<>>

\* C2: a request whose artifacts bag is present but holds no non-empty
\* sequence is rejected with the artifacts validation error, and no entry of
\* it is persisted.
C2_EmptyArtifactsRejected ==
  /\ \A p \in Procs :
       (pc[p] = "done" /\ args[p].projectPath /\ args[p].artifacts.present
          /\ ~HasArtifact(args[p].artifacts)) =>
         (resp[p].kind = "artifacts_required" /\ NotAppended(p))
  /\ \A s \in SpecNames : \A i \in DOMAIN logs[s] :
       logs[s][i].artifacts.present => HasArtifact(logs[s][i].artifacts)

\* C3: appends to one specification's collection are serialized: after k
\* appends to a specification have returned, in any interleaving, its
\* collection holds exactly k entries and each appended entry is in it.
C3_NoLostAppend ==
  \A s \in SpecNames :
    /\ Len(logs[s]) = Len(history[s])
    /\ \A i \in DOMAIN history[s] : \E j \in DOMAIN logs[s] : logs[s][j] = history[s][i].entry

\* two invocations were inside addLogEntry for one specification at once
\* (one holding the critical section, one waiting), and both appends are there
C3_Witness ==
  \E s \in SpecNames :
    /\ Len(history[s]) >= 2
    /\ history[s][1].call > history[s][2].call

\* C4: in every entry built and persisted by an append, statistics.filesChanged
\* is len(filesModified) + len(filesCreated) of that entry, whatever the
\* caller supplied as filesChanged.
DerivedFilesChanged(e) ==
  e.statistics.filesChanged = Len(e.filesModified) + Len(e.filesCreated)

C4_FilesChangedDerived ==
  /\ \A p \in Procs : pc[p] \in {"load", "write", "stats"} => DerivedFilesChanged(logEntry[p])
  /\ \A s \in SpecNames : \A i \in DOMAIN logs[s] : DerivedFilesChanged(logs[s][i])

\* an entry was persisted for a request that supplied filesChanged = 7
C4_Witness ==
  \E p \in Procs :
    /\ pc[p] = "stats"
    /\ args[p].statistics.filesChanged = 7
    /\ \E i \in DOMAIN logs[args[p].specName] :
         /\ logs[args[p].specName][i].id = history[args[p].specName][Len(history[args[p].specName])].entry.id
         /\ logs[args[p].specName][i].statistics.filesChanged = 1

\* C5: after N appends to an initially empty specification log, getAllLogs
\* returns exactly those N entries in the order the appends were made: no
\* entry is changed, removed or reordered by a later append.
C5_AppendOrder ==
  \A s \in SpecNames :
    GetAllLogs(s) = [i \in 1..Len(history[s]) |-> history[s][i].entry]

\* three entries were appended to one specification
C5_Witness ==
  \E s \in SpecNames : Len(GetAllLogs(s)) >= 3 /\ Len(history[s]) >= 3

\* ------------------------------------------------------------ claims: query
\* the search term is missing, not a string, or empty after trimming
InvalidTerm(t) ==
  \/ t = Undefined
  \/ t = NotAString
  \/ \A i \in DOMAIN t : t[i] = " "

\* C6: a query whose searchTerm is missing, not a string, or empty after
\* trimming fails with the validation error before any I/O: nothing is
\* resolved, listed or loaded.
C6_InvalidTermFailsBeforeIO ==
  (qpc # "idle" /\ InvalidTerm(qargs.searchTerm)) =>
    /\ qpc = "done"
    /\ ~qresp.success
    /\ qresp.kind = "search_term_required"
    /\ qio = <<>>
    /\ qloaded = <<>>

\* a blank search term was refused in a project that has specifications
C6_Witness ==
  /\ qpc = "done"
  /\ qargs.searchTerm = <<" ", " ">>
  /\ qresp.kind = "search_term_required"
  /\ activeDir # <<>>

\* the name exists in a namespace
InNamespace(root, dir, name) ==
  root = "ok" /\ name \in {dir[i].name : i \in DOMAIN dir}

NamedQuery ==
  qpc # "idle" /\ ~InvalidTerm(qargs.searchTerm) /\ qargs.specName # ""

AllTagged(rows, name, isArchived) ==
  \A i \in DOMAIN rows : rows[i].specName = name /\ rows[i].isArchived = isArchived

\* the query searched exactly the named specification in one namespace
SearchedIn(name, isArchived) ==
  /\ specsToSearch = <<[name |-> name, isArchived |-> isArchived]>>
  /\ AllTagged(allMatches, name, isArchived)
  /\ AllTagged(qresp.matches, name, isArchived)
  /\ \A i \in DOMAIN qloaded :
       /\ qloaded[i].spec = [name |-> name, isArchived |-> isArchived]
       /\ qloaded[i].loaded => qloaded[i].entries = StoredLogs(qloaded[i].spec)
  /\ qpc = "done" => qresp.success

\* C7: with specName given, the name is resolved in the active namespace first
\* and only then in the archive: an active name is searched there with
\* isArchived = false, an archived-only name is searched in the archive with
\* every match tagged isArchived = true, and a name in neither namespace fails
\* with a not-found error that names the spec.
C7_ActiveThenArchive ==
  NamedQuery =>
    LET n == qargs.specName
        inActive == InNamespace(activeRoot, activeDir, n)
        inArchive == InNamespace(archRoot, archDir, n)
    IN /\ qio[1] = "access:active"
       /\ inActive => (SearchedIn(n, FALSE) /\ \A i \in DOMAIN qio : qio[i] # "access:archive")
       /\ (~inActive /\ inArchive) => (SearchedIn(n, TRUE) /\ qio[2] = "access:archive")
       /\ (~inActive /\ ~inArchive) =>
            /\ qpc = "done"
            /\ ~qresp.success
            /\ qresp.kind = "spec_not_found"
            /\ n \in qresp.names
            /\ qloaded = <<>>

\* an archived-only specification was searched and gave matches
C7_Witness ==
  /\ NamedQuery
  /\ qpc = "done"
  /\ ~InNamespace(activeRoot, activeDir, qargs.specName)
  /\ qresp.matches # <<>>
  /\ \A i \in DOMAIN qresp.matches : qresp.matches[i].isArchived

\* the specifications of a root: its directories, none when it does not exist
SpecsUnder(root, dir, isArchived) ==
  IF root = "ok" THEN SpecsIn(dir, isArchived) ELSE <<>>

\* C8: with specName omitted, both roots are enumerated; a root that does not
\* exist gives no specifications and no failure, so with both roots missing the
\* query succeeds with specsSearched = 0 and no matches.
C8_MissingRootIsEmpty ==
  (/\ qpc = "done"
   /\ ~InvalidTerm(qargs.searchTerm)
   /\ qargs.specName = ""
   /\ activeRoot # "error"
   /\ archRoot # "error") =>
    /\ qresp.success
    /\ SubSeq(qio, 1, 2) = <<"readdir:active", "readdir:archive">>
    /\ specsToSearch = SpecsUnder(activeRoot, activeDir, FALSE) \o SpecsUnder(archRoot, archDir, TRUE)
    /\ qresp.specsSearched = Len(specsToSearch)
    /\ (activeRoot = "missing" /\ archRoot = "missing") =>
         (qresp.specsSearched = 0 /\ qresp.matches = <<>>)

\* a query over a project with neither root succeeded with nothing searched
C8_Witness ==
  /\ qpc = "done"
  /\ qargs.specName = ""
  /\ activeRoot = "missing"
  /\ archRoot = "missing"
  /\ qresp.success
  /\ qresp.specsSearched = 0

\* iteration i of the loop did not get through its specification: the load
\* failed, or processing threw before the last entry
NotLoaded(i) == ~qloaded[i].loaded
NotProcessed(i) == qloaded[i].loaded /\ Len(qloaded[i].rows) < Len(qloaded[i].entries)

Failed == {i \in DOMAIN qloaded : NotLoaded(i) \/ NotProcessed(i)}

\* the rows and the number of logs of iterations 1..n, those in skip left out
RECURSIVE RowsUpTo(_, _)
RowsUpTo(n, skip) ==
  IF n = 0 THEN <<>>
  ELSE RowsUpTo(n - 1, skip) \o (IF n \in skip THEN <<>> ELSE Flatten(qloaded[n].rows))

RECURSIVE LogsUpTo(_, _)
LogsUpTo(n, skip) ==
  IF n = 0 THEN 0
  ELSE LogsUpTo(n - 1, skip) + (IF n \in skip THEN 0 ELSE Len(qloaded[n].entries))

SearchAllDone ==
  qpc = "done" /\ qargs.specName = "" /\ qloaded # <<>>

\* C9: a specification whose collection cannot be loaded or processed during a
\* multi-specification query is skipped: it adds no row to matches and nothing
\* to logsSearched, the query succeeds, and the other specifications' matches
\* are returned as if it were absent.
C9_FailedSpecContributesNothing ==
  SearchAllDone =>
    /\ qresp.success
    /\ allMatches = RowsUpTo(Len(qloaded), Failed)
    /\ qresp.logsSearched = LogsUpTo(Len(qloaded), Failed)

\* The part of C9 that the code keeps: a specification whose collection cannot
\* be loaded adds no row and nothing to logsSearched, and the query succeeds.
LoadFailureIsolated ==
  SearchAllDone =>
    /\ qresp.success
    /\ allMatches = RowsUpTo(Len(qloaded), {i \in DOMAIN qloaded : NotLoaded(i)})
    /\ qresp.logsSearched = LogsUpTo(Len(qloaded), {i \in DOMAIN qloaded : NotLoaded(i)})
    /\ \A i \in DOMAIN qloaded : NotLoaded(i) => qloaded[i].rows = <<>>

\* the term occurs in the string, letter case apart
OccursIn(term, str) ==
  /\ IsString(str)
  /\ \E i \in 0..(Len(str) - Len(term)) :
       \A j \in 1..Len(term) : ToLowerChar(str[i + j]) = ToLowerChar(term[j])

\* the strings of a field value, at any depth of nested arrays
RECURSIVE StringsOf(_)
StringsOf(value) ==
  IF value.t = "str" THEN {value.s}
  ELSE IF value.t = "arr" THEN UNION {StringsOf(value.a[i]) : i \in DOMAIN value.a}
  ELSE {}

SelectedTypes(filter) ==
  IF filter \in {"", "all"} THEN {ArtifactTypes[i] : i \in DOMAIN ArtifactTypes}
  ELSE {filter}

\* the term occurs in the summary or in a string of an artifact of a selected
\* sequence
TermOccurs(e, term, filter) ==
  \/ OccursIn(term, e.summary)
  \/ /\ e.artifacts.present
     /\ \E type \in SelectedTypes(filter) :
          \E a \in DOMAIN e.artifacts[type] :
            \E f \in DOMAIN e.artifacts[type][a] :
              \E str \in StringsOf(e.artifacts[type][a][f]) : OccursIn(term, str)

\* the rows entry k of iteration i added to allMatches
RowsAdded(i, k) ==
  IF k <= Len(qloaded[i].rows) THEN qloaded[i].rows[k] ELSE <<>>

\* C10: a log entry contributes at least one result row if and only if the
\* search term occurs, case-insensitively, in its summary or in a string (at
\* any nesting depth) of an artifact of a sequence the type filter selects.
C10_RowIffTermOccurs ==
  /\ allMatches = RowsUpTo(Len(qloaded), {})
  /\ \A i \in DOMAIN qloaded :
       qloaded[i].loaded =>
         \A k \in DOMAIN qloaded[i].entries :
           (RowsAdded(i, k) # <<>>) <=>
             TermOccurs(qloaded[i].entries[k], qargs.searchTerm, qargs.artifactType)

\* The part of C10 that the code keeps: the equivalence holds for every entry
\* the loop reaches, that is, up to the first entry of a collection whose
\* summary is not a string.
RowIffTermOccursWhereProcessed ==
  /\ allMatches = RowsUpTo(Len(qloaded), {})
  /\ \A i \in DOMAIN qloaded :
       \A k \in DOMAIN qloaded[i].rows :
         (qloaded[i].rows[k] # <<>>) <=>
           TermOccurs(qloaded[i].entries[k], qargs.searchTerm, qargs.artifactType)

\* a nested string alone made an entry match, under a type filter
ProcessedWitness ==
  \E i \in DOMAIN qloaded :
    \E k \in DOMAIN qloaded[i].rows :
      /\ qloaded[i].rows[k] # <<>>
      /\ qargs.artifactType = "classes"
      /\ ~OccursIn(qargs.searchTerm, qloaded[i].entries[k].summary)

\* the artifacts of an entry, in the sequences the type filter selects, in
\* which the term occurs: pairs of sequence name and position
MatchingArtifacts(e, term, filter) ==
  IF ~e.artifacts.present THEN {}
  ELSE {p \in SelectedTypes(filter) \X (1..5) :
          /\ p[2] \in DOMAIN e.artifacts[p[1]]
          /\ \E f \in DOMAIN e.artifacts[p[1]][p[2]] :
               \E str \in StringsOf(e.artifacts[p[1]][p[2]][f]) : OccursIn(term, str)}

\* the row carries the entry's taskId, timestamp, summary and file lists
CarriesContext(row, e) ==
  /\ row.taskId = e.taskId
  /\ row.timestamp = e.timestamp
  /\ row.context.summary = e.summary
  /\ row.context.filesModified = e.filesModified
  /\ row.context.filesCreated = e.filesCreated

\* the row's artifact slot holds the summary text instead of an artifact
IsPlaceholder(row, e) == row.artifact.data = <<Str("summary", e.summary)>>

\* the rows emitted for an entry are as the result composition rule says
ComposedFor(rows, e, term, filter) ==
  LET n == Cardinality(MatchingArtifacts(e, term, filter))
  IN /\ \A r \in DOMAIN rows : CarriesContext(rows[r], e)
     /\ n >= 1 => (Len(rows) = n /\ \A r \in DOMAIN rows : ~IsPlaceholder(rows[r], e))
     /\ n = 0 => (Len(rows) = 1 /\ IsPlaceholder(rows[1], e))

\* C11: for each matching log entry, the number of rows emitted is the number
\* of its matching artifacts when that is at least one, each row carrying the
\* entry's taskId, timestamp, summary and file lists, and exactly one
\* placeholder row carrying the summary text when it matches only through its
\* summary; never both kinds of row for one entry.
C11_RowsPerMatchingEntry ==
  \A i \in DOMAIN qloaded :
    qloaded[i].loaded =>
      \A k \in DOMAIN qloaded[i].entries :
        TermOccurs(qloaded[i].entries[k], qargs.searchTerm, qargs.artifactType) =>
          ComposedFor(RowsAdded(i, k), qloaded[i].entries[k], qargs.searchTerm, qargs.artifactType)

\* The part of C11 that the code keeps: the composition rule holds for every
\* matching entry the loop reaches.
RowsComposedWhereProcessed ==
  \A i \in DOMAIN qloaded :
    \A k \in DOMAIN qloaded[i].rows :
      TermOccurs(qloaded[i].entries[k], qargs.searchTerm, qargs.artifactType) =>
        ComposedFor(qloaded[i].rows[k], qloaded[i].entries[k], qargs.searchTerm, qargs.artifactType)

\* one entry gave two artifact rows, another a placeholder row
ComposedWitness ==
  \E i \in DOMAIN qloaded :
    \E k, l \in DOMAIN qloaded[i].rows :
      /\ Len(qloaded[i].rows[k]) = 2
      /\ Len(qloaded[i].rows[l]) = 1
      /\ IsPlaceholder(qloaded[i].rows[l][1], qloaded[i].entries[l])

\* the place of a name in a directory listing
PosIn(dir, name) == CHOOSE i \in DOMAIN dir : dir[i].name = name

\* the place of a row's specification in enumeration order: the active
\* specifications in listing order, then the archived ones
SpecRank(row) ==
  IF row.isArchived THEN Len(activeDir) + PosIn(archDir, row.specName)
  ELSE PosIn(activeDir, row.specName)

\* the place, in its stored collection, of the entry a row comes from
EntryRank(row) ==
  LET stored == StoredLogs([name |-> row.specName, isArchived |-> row.isArchived])
  IN CHOOSE k \in DOMAIN stored : stored[k].timestamp = row.timestamp

Ordered(rows) ==
  \A a, b \in DOMAIN rows :
    a < b =>
      /\ rows[a].isArchived => rows[b].isArchived
      /\ SpecRank(rows[a]) <= SpecRank(rows[b])
      /\ SpecRank(rows[a]) = SpecRank(rows[b]) => EntryRank(rows[a]) <= EntryRank(rows[b])

\* C12: the rows of a query result are in specification-enumeration order (all
\* active specifications before all archived ones) and, within a specification,
\* in the stored append order of their entries: no row of a later
\* specification or entry precedes a row of an earlier one.
C12_RowOrder ==
  /\ Ordered(allMatches)
  /\ Ordered(qresp.matches)

\* a result with rows of two active specifications and an archived one, two
\* entries of one specification among them
C12_Witness ==
  /\ qpc = "done"
  /\ \E a, b, c, d \in DOMAIN qresp.matches :
       /\ a < b /\ b < c /\ c < d
       /\ qresp.matches[a].specName # qresp.matches[b].specName
       /\ ~qresp.matches[b].isArchived
       /\ qresp.matches[b].specName = qresp.matches[c].specName
       /\ qresp.matches[b].timestamp # qresp.matches[c].timestamp
       /\ ~qresp.matches[c].isArchived
       /\ qresp.matches[d].isArchived

\* the full sequence of rows, from what each iteration of the loop pushed
FullMatches == RowsUpTo(Len(qloaded), {})

QueryAnswered == qpc = "done" /\ qresp.success

\* C13: the returned matches are at most 100 rows and are exactly the first
\* min(100, total) rows of the full ordered sequence of matching rows
\* accumulated across all searched specifications.
C13_CappedPrefix ==
  QueryAnswered =>
    /\ Len(qresp.matches) <= 100
    /\ Len(qresp.matches) = (IF Len(FullMatches) < 100 THEN Len(FullMatches) ELSE 100)
    /\ \A i \in DOMAIN qresp.matches : qresp.matches[i] = FullMatches[i]

\* 101 rows were found, the last two from one entry, and the first of the two
\* is the last row returned
C13_Witness ==
  /\ QueryAnswered
  /\ Len(FullMatches) = 101
  /\ Len(qresp.matches) = 100
  /\ FullMatches[100].timestamp = FullMatches[101].timestamp
  /\ qresp.matches[100] = FullMatches[100]

\* C14: whenever the full match sequence has more than 100 rows the response
\* reports that truncation occurred and the true total before truncation;
\* whenever it has 100 rows or fewer the response reports no truncation.
C14_TruncationReported ==
  QueryAnswered =>
    /\ Len(FullMatches) > 100 => (qresp.kind = "limited" /\ qresp.total = Len(FullMatches))
    /\ Len(FullMatches) <= 100 => qresp.kind # "limited"

\* every entry of the largest collection matched: 100 rows returned, the
\* number of entries reported as the total
C14_Witness ==
  /\ QueryAnswered
  /\ qargs.specName = "s1"
  /\ Len(qloaded[1].entries) = MaxEntries
  /\ Len(qresp.matches) = 100
  /\ qresp.kind = "limited"
  /\ qresp.total = MaxEntries

\* exactly 100 rows were found and nothing was reported as truncated
ExactlyAtCap ==
  /\ QueryAnswered
  /\ Len(FullMatches) = 100
  /\ qresp.kind = "found"

\* a failure response with a message and at least one suggested next action
Advises(r) == r.kind # "none" /\ r.nextSteps >= 1

\* C15: every failure response of the append handler and of the query handler
\* (missing project path, missing artifacts, unknown task, unreadable task
\* document, store failure, invalid search term, unknown spec, enumeration
\* failure) carries a message and a non-empty list of suggested next actions.
C15_FailuresAdvise ==
  /\ \A p \in Procs : (pc[p] = "done" /\ ~resp[p].success) => Advises(resp[p])
  /\ (qpc = "done" /\ ~qresp.success) => Advises(qresp)

\* The part of C15 that the code keeps: every failure of the append handler
\* other than the missing project path, and every failure of the query
\* handler, carries a message and next actions.
FailuresAdviseButProjectPath ==
  /\ \A p \in Procs :
       (pc[p] = "done" /\ ~resp[p].success /\ resp[p].kind # "no_project_path") => Advises(resp[p])
  /\ (qpc = "done" /\ ~qresp.success) => Advises(qresp)

\* ------------------------------------------------------------ claims: approval
LastOp == ops[Len(ops)]

\* C16: the client proceeds to the next phase only after a status poll of the
\* current approval returned 'approved' and the following delete of that
\* approval succeeded; while the status is pending, after needs-revision, or
\* after a failed delete, the next phase is never reached.
C16_NextOnlyAfterDelete ==
  aphase = "next" =>
    /\ Len(ops) >= 2
    /\ ops[Len(ops) - 1] = Op("status", approvalId, "approved")
    /\ LastOp = Op("delete", approvalId, "ok")

\* The part of C16 that the workflow keeps: the next phase is reached only for
\* an approval that a status poll reported approved and that is gone from the
\* dashboard, and never from a poll that returned pending or needs-revision.
NextOnlyAfterApproval ==
  aphase = "next" =>
    /\ \E i \in DOMAIN ops : ops[i] = Op("status", approvalId, "approved")
    /\ approvals[approvalId] = "gone"
    /\ LastOp \in {Op("delete", approvalId, "ok"), Op("status", approvalId, "not-found")}

\* the next phase was reached after a successful delete that followed a failed one
NextAfterRetriedDelete ==
  /\ aphase = "next"
  /\ LastOp = Op("delete", approvalId, "ok")
  /\ \E i \in DOMAIN ops : ops[i] = Op("delete", approvalId, "failed")

\* the approvals for which a status poll returned needs-revision
Revised == {ops[i].id : i \in {j \in DOMAIN ops : ops[j] = Op("status", ops[j].id, "needs-revision")}}

\* C17: after a status poll returns needs-revision the client updates the
\* document and creates a NEW approval request before polling again: the
\* approval that returned needs-revision is never polled again (nor deleted),
\* and never leads to the next phase.
C17_NewRequestAfterRevision ==
  /\ \A i, j \in DOMAIN ops :
       (i < j /\ ops[i] = Op("status", ops[i].id, "needs-revision")
          /\ ops[j].op \in {"status", "delete"}) =>
         /\ ops[j].id # ops[i].id
         /\ \E k \in (i + 1)..(j - 1) : ops[k] = Op("request", ops[j].id, "ok")
  /\ aphase \in {"poll", "cleanup", "next"} => approvalId \notin Revised
  /\ aphase = "update" => approvalId \in Revised

\* after needs-revision a new approval was requested, approved and deleted,
\* and the next phase was reached
C17_Witness ==
  /\ aphase = "next"
  /\ Revised # {}
  /\ approvalId \notin Revised
  /\ LastOp = Op("delete", approvalId, "ok")

\* ------------------------------------------------------------ claims: failures
\* C18: whenever logImplementationHandler returns a failure response, no entry
\* has been added to the specification's log collection by that call, also
\* when the failure is raised after addLogEntry has completed.
C18_FailureLeavesNoEntry ==
  \A p \in Procs : (pc[p] = "done" /\ ~resp[p].success) => NotAppended(p)

\* The part of C18 that the code keeps: a validation failure (project path,
\* artifacts, task document, task id) leaves no entry behind.
ValidationFailureLeavesNoEntry ==
  \A p \in Procs :
    (/\ pc[p] = "done"
     /\ resp[p].kind \in {"no_project_path", "artifacts_required", "validate_failed", "task_not_found"})
      => NotAppended(p)

\* an unknown task was refused after an earlier call had logged an entry
ValidationFailureWitness ==
  /\ pc["p1"] = "done"
  /\ resp["p1"].kind = "task_not_found"
  /\ \E s \in SpecNames : history[s] # <<>>

\* ------------------------------------------------------------ claims: type filter
SpecificTypes == {"apiEndpoints", "components", "functions", "classes", "integrations"}

\* the tag a row of each sequence is to carry
TagOf ==
  [apiEndpoints |-> "apiEndpoint", components |-> "component", functions |-> "function",
   classes |-> "class", integrations |-> "integration"]

\* the entry a row comes from
EntryOf(row) ==
  LET stored == StoredLogs([name |-> row.specName, isArchived |-> row.isArchived])
  IN stored[EntryRank(row)]

\* the row has the tag of the type and its data is an artifact stored in that
\* sequence of its entry
StoredRowOfType(row, type) ==
  /\ row.artifact.type = TagOf[type]
  /\ EntryOf(row).artifacts.present
  /\ \E a \in DOMAIN EntryOf(row).artifacts[type] :
       EntryOf(row).artifacts[type][a] = row.artifact.data

\* C19: when artifactType is one specific type, every returned row has the
\* artifact.type tag of that type and its artifact.data is an artifact stored
\* in that sequence of the entry; no row of another type, and no row whose data
\* is not a stored artifact, is returned.
C19_RowsOfRequestedType ==
  (qpc = "done" /\ qargs.artifactType \in SpecificTypes) =>
    \A i \in DOMAIN qresp.matches : StoredRowOfType(qresp.matches[i], qargs.artifactType)

\* The part of C19 that the code keeps: under a specific type, every returned
\* row is a stored artifact of that type with its tag, or the placeholder row
\* of an entry whose summary contains the term and of whose artifacts of that
\* type none matches; the placeholder is tagged 'function' whatever the type.
RowsOfRequestedTypeOrPlaceholder ==
  (qpc = "done" /\ qargs.artifactType \in SpecificTypes) =>
    \A i \in DOMAIN qresp.matches :
      LET row == qresp.matches[i]
      IN \/ StoredRowOfType(row, qargs.artifactType)
         \/ /\ IsPlaceholder(row, EntryOf(row))
            /\ row.artifact.type = "function"
            /\ OccursIn(qargs.searchTerm, EntryOf(row).summary)
            /\ MatchingArtifacts(EntryOf(row), qargs.searchTerm, qargs.artifactType) = {}

\* a query for classes returned a class row and a placeholder row
TypeFilterWitness ==
  /\ qpc = "done"
  /\ qargs.artifactType = "classes"
  /\ \E i, j \in DOMAIN qresp.matches :
       /\ StoredRowOfType(qresp.matches[i], "classes")
       /\ IsPlaceholder(qresp.matches[j], EntryOf(qresp.matches[j]))

\* ------------------------------------------------------------ claims: counts
\* the directories of a listing
Directories(root, dir) ==
  IF root = "ok" THEN {i \in DOMAIN dir : dir[i].isDirectory} ELSE {}

\* the entries in the collections of the first n candidates, those whose load
\* failed left out
RECURSIVE StoredUpTo(_)
StoredUpTo(n) ==
  IF n = 0 THEN 0
  ELSE StoredUpTo(n - 1)
         + (IF qloaded[n].loaded THEN Len(StoredLogs(qloaded[n].spec)) ELSE 0)

\* C20: in every successful query response, specsSearched is the number of
\* candidate specifications selected (1 when specName is given, otherwise the
\* number of directories under the active and archived roots, a specification
\* whose load failed included), and logsSearched is the total number of
\* entries in the collections of the specifications that were loaded
\* successfully, whatever matched or was truncated.
C20_SearchCounts ==
  QueryAnswered =>
    /\ qresp.specsSearched =
         (IF qargs.specName # "" THEN 1
          ELSE Cardinality(Directories(activeRoot, activeDir))
                 + Cardinality(Directories(archRoot, archDir)))
    /\ Len(qloaded) = qresp.specsSearched
    /\ qresp.logsSearched = StoredUpTo(Len(qloaded))

\* nothing matched in three candidates, one of which failed to load, and the
\* entries of the other two were counted
C20_Witness ==
  /\ QueryAnswered
  /\ qresp.matches = <<>>
  /\ qresp.specsSearched = 3
  /\ \E i \in DOMAIN qloaded : ~qloaded[i].loaded
  /\ qresp.logsSearched >= 3

====
